---- MODULE Spec2Model ----
(***************************************************************************)
(* textedit (src/main.rs): raw-mode terminal session, frame rendering,     *)
(* escape-sequence input handling and the editor loop of main().           *)
(*                                                                         *)
(* Bytes are the integers 0..255, byte strings are sequences of bytes.     *)
(* Every blocking call into the outside world (open, tcgetattr, ioctl,     *)
(* tcsetattr, write, read) is a step whose outcome is chosen by \E.        *)
(***************************************************************************)
EXTENDS Integers, Sequences, FiniteSets, TLC

VARIABLES
    pc,                 \* position of main()
    overflow_checks,    \* build profile: TRUE = arithmetic overflow panics
    tty,                \* attribute set currently held by the terminal device
    prev_term_settings, \* Editor.prev_term_settings
    term_settings,      \* Editor.term_settings
    size,               \* Editor.size
    curpos,             \* Editor.curpos
    prev_curpos,        \* curpos when the latest handle_input call began
    framebuf,           \* Editor.framebuf
    quit,               \* Editor.quit
    ostream,            \* bytes handed to the output stream by the latest write
    err,                \* the error carried by Err(err) out of update()
    stderr,             \* what has been written to the error stream
    exit_code,          \* process exit status
    tcgetattr_calls,    \* successful captures of the terminal attributes
    restore_calls,      \* calls of apply_prev_term_settings
    key,                \* outcome of the latest read_key of the current tick
    event,              \* what that read made handle_input do
    consumed,           \* bytes consumed by the latest handle_input call
    retries             \* consecutive Ok(false) returns of the wait loop; kept
                        \* when the wait ends in Quit, 0 after any other end

vars == <<pc, overflow_checks, tty, prev_term_settings, term_settings, size,
          prev_curpos, curpos, framebuf, quit, ostream, err, stderr, exit_code,
          tcgetattr_calls, restore_calls, key, event, consumed, retries>>

(***************************************************************************)
(* Bounds of the model.                                                    *)
(***************************************************************************)
MaxCols == 23
MaxRows == 3
MaxRetries == 2
\* how far past the screen the model follows a cursor that is not clamped
MaxOverrun == 2
\* usize/isize width used by the model; the program's is the target's
\* pointer width.  Every wrapped value below is compared against IsizeMax
\* only, and the comparison comes out the same at any width >= 8.
UsizeBits == 16

RECURSIVE Pow2(_)
Pow2(n) == IF n = 0 THEN 1 ELSE 2 * Pow2(n - 1)

UsizeModulus == Pow2(UsizeBits)
IsizeMax == Pow2(UsizeBits - 1) - 1

\* a - b on usize; release builds wrap, debug builds panic (see Overflows)
WrappingSub(a, b) == (a - b + UsizeModulus) % UsizeModulus
Overflows(a, b) == a < b

(***************************************************************************)
(* Bytes and byte strings of the program.                                  *)
(***************************************************************************)
ESC == 27
LBracket == 91
KeyA == 65
KeyB == 66
KeyC == 67
KeyD == 68
LowerQ == 113
Tilde == 126
Space == 32
Semicolon == 59
UpperH == 72
Digit0 == 48

ctrl_chord(c) == c % 32

SHOW_CURSOR == <<27, 91, 63, 50, 53, 104>>
HIDE_CURSOR == <<27, 91, 63, 50, 53, 108>>
CLEAR_SCREEN == <<27, 91, 50, 74>>
CLEAR_LINE == <<27, 91, 75>>
CURSOR_TO_START == <<27, 91, 72>>
CRLF == <<13, 10>>
\* b"Welcome to textedit"
Welcome == <<87, 101, 108, 99, 111, 109, 101, 32, 116, 111, 32,
             116, 101, 120, 116, 101, 100, 105, 116>>

\* "{}" of an unsigned integer: its decimal digits, most significant first
RECURSIVE FormatDecimal(_)
FormatDecimal(n) ==
    IF n < 10 THEN <<Digit0 + n>>
    ELSE FormatDecimal(n \div 10) \o <<Digit0 + (n % 10)>>

\* format!("\x1b[{};{}H", curpos.y + 1, curpos.x + 1)
MoveCursorCode(pos) ==
    <<ESC, LBracket>> \o FormatDecimal(pos.y + 1) \o <<Semicolon>>
        \o FormatDecimal(pos.x + 1) \o <<UpperH>>

RECURSIVE Repeat(_, _)
Repeat(b, n) == IF n = 0 THEN <<>> ELSE <<b>> \o Repeat(b, n - 1)

(***************************************************************************)
(* Terminal attributes.  A Termios value is a record of flag sets and the  *)
(* two control characters the program touches.  The character size is the  *)
(* two-bit CSIZE field, so CS8 is both of its bits.                        *)
(***************************************************************************)
CS8 == {"CSIZE_LO", "CSIZE_HI"}
InputCleared == {"BRKINT", "ICRNL", "INPCK", "ISTRIP", "IXON"}
LocalCleared == {"ECHO", "ICANON", "IEXTEN", "ISIG"}
OutputCleared == {"OPOST"}

raw_mode_params(t) ==
    [control_flags |-> t.control_flags \cup CS8,
     input_flags   |-> t.input_flags \ InputCleared,
     local_flags   |-> t.local_flags \ LocalCleared,
     output_flags  |-> t.output_flags \ OutputCleared,
     vmin          |-> 0,
     vtime         |-> 1]

\* attribute sets the terminal may hold when the program starts
InitialTermios ==
    { [control_flags |-> {"CSIZE_LO", "CSIZE_HI", "CREAD"},
       input_flags   |-> {"BRKINT", "ICRNL", "IXON", "IUTF8"},
       local_flags   |-> {"ECHO", "ICANON", "IEXTEN", "ISIG", "ECHOE"},
       output_flags  |-> {"OPOST", "ONLCR"},
       vmin          |-> 1,
       vtime         |-> 0],
      [control_flags |-> {"CSIZE_HI", "CREAD", "PARENB"},
       input_flags   |-> {"ICRNL", "INPCK", "ISTRIP"},
       local_flags   |-> {"ICANON", "ISIG"},
       output_flags  |-> {"OPOST"},
       vmin          |-> 1,
       vtime         |-> 0] }

NoTermios == [control_flags |-> {}, input_flags |-> {}, local_flags |-> {},
              output_flags |-> {}, vmin |-> 0, vtime |-> 0]

(***************************************************************************)
(* Pure parts of the Editor methods.                                       *)
(***************************************************************************)

\* the bytes the model feeds to the input stream: Ctrl-Q, ESC, '[', the
\* four arrow finals, and two bytes ('Z', 'q') that the program ignores
Keys == {ctrl_chord(LowerQ), ESC, LBracket, KeyA, KeyB, KeyC, KeyD, 90, LowerQ}

\* outcomes of input.read_exact(&mut buf) on a one-byte buffer
ReadOutcomes ==
    {[kind |-> "Ok", byte |-> b] : b \in Keys}
        \cup {[kind |-> "UnexpectedEof", byte |-> 0],
              [kind |-> "OtherError", byte |-> 0]}

\* mutant: a read that ends with no data is an error like any other
read_key_EofIsError(r) ==
    IF r.kind = "Ok" THEN [kind |-> "Some", byte |-> r.byte]
    ELSE [kind |-> "Err", byte |-> 0]

\* read_key: Ok(Some(byte)), Ok(None) on UnexpectedEof, Err(e) otherwise
read_key(r) ==
    IF r.kind = "Ok" THEN [kind |-> "Some", byte |-> r.byte]
    ELSE IF r.kind = "UnexpectedEof" THEN [kind |-> "None", byte |-> 0]
    ELSE [kind |-> "Err", byte |-> 0]

NoKey == [kind |-> "None", byte |-> 0]

\* mutant: the arm moves along the other axis
MoveUp_WrongAxis(pos) == IF pos.x > 0 THEN [pos EXCEPT !.x = pos.x - 1] ELSE pos

\* the four match arms of handle_input; the comparisons against
\* size - 1 are usize subtractions
MoveUp(pos) == IF pos.y > 0 THEN [pos EXCEPT !.y = pos.y - 1] ELSE pos
MoveDown(pos, sz) ==
    IF pos.y < WrappingSub(sz.y, 1) THEN [pos EXCEPT !.y = pos.y + 1] ELSE pos
\* mutant: `<=` for `<`
MoveRight_OffByOne(pos, sz) ==
    IF pos.x <= WrappingSub(sz.x, 1) THEN [pos EXCEPT !.x = pos.x + 1] ELSE pos
MoveRight(pos, sz) ==
    IF pos.x < WrappingSub(sz.x, 1) THEN [pos EXCEPT !.x = pos.x + 1] ELSE pos
MoveLeft(pos) == IF pos.x > 0 THEN [pos EXCEPT !.x = pos.x - 1] ELSE pos

\* whether the arm for final byte b evaluates an overflowing subtraction
ArmOverflows(b, sz) ==
    \/ b = KeyB /\ Overflows(sz.y, 1)
    \/ b = KeyC /\ Overflows(sz.x, 1)

\* mutant: the up and down arms swapped
ArmEvent_Swapped(k) ==
    IF k.kind # "Some" THEN "none"
    ELSE IF k.byte = KeyA THEN "MoveDown"
    ELSE IF k.byte = KeyB THEN "MoveUp"
    ELSE IF k.byte = KeyC THEN "MoveRight"
    ELSE IF k.byte = KeyD THEN "MoveLeft"
    ELSE "none"

\* the third byte of ESC '[' b: the event of the arm taken
ArmEvent(k) ==
    IF k.kind # "Some" THEN "none"
    ELSE IF k.byte = KeyA THEN "MoveUp"
    ELSE IF k.byte = KeyB THEN "MoveDown"
    ELSE IF k.byte = KeyC THEN "MoveRight"
    ELSE IF k.byte = KeyD THEN "MoveLeft"
    ELSE "none"

ApplyArm(ev, pos, sz) ==
    IF ev = "MoveUp" THEN MoveUp(pos)
    ELSE IF ev = "MoveDown" THEN MoveDown(pos, sz)
    ELSE IF ev = "MoveRight" THEN MoveRight(pos, sz)
    ELSE IF ev = "MoveLeft" THEN MoveLeft(pos)
    ELSE pos

\* let lmargin = (self.size.x - welcome.len()) / 2 - 1
BannerOverflows(sz) ==
    \/ Overflows(sz.x, Len(Welcome))
    \/ Overflows(WrappingSub(sz.x, Len(Welcome)) \div 2, 1)

\* mutant: the margin without the `- 1`
Lmargin_NoCorrection(sz) == WrappingSub(sz.x, Len(Welcome)) \div 2
Lmargin(sz) == WrappingSub(WrappingSub(sz.x, Len(Welcome)) \div 2, 1)

\* mutant: the banner half-way down
BannerRow_Half(sz) == sz.y \div 2
\* line 222: the row that carries the banner
BannerRow(sz) == sz.y \div 3

\* mutant: a separator after the last row too
RowSeparator_Always(i, sz) == CRLF

\* lines 231-233: what ends row i
RowSeparator(i, sz) == IF i < sz.y - 1 THEN CRLF ELSE <<>>

\* the row loop of update(), from row i on.  st.status is "ok", "panic"
\* (an overflow check fired) or "alloc" (the buffer cannot grow to the
\* requested length); st.buf is the frame buffer so far.
RECURSIVE RenderRows(_, _, _, _)
RenderRows(st, i, sz, checks) ==
    IF st.status # "ok" \/ i >= sz.y THEN st
    ELSE LET b1 == st.buf \o <<Tilde>> \o CLEAR_LINE
             banner == i = BannerRow(sz)
             s2 == IF ~banner THEN [buf |-> b1, status |-> "ok"]
                   ELSE IF checks /\ BannerOverflows(sz)
                        THEN [buf |-> b1, status |-> "panic"]
                   ELSE IF Len(b1) + Lmargin(sz) > IsizeMax
                        THEN [buf |-> b1, status |-> "alloc"]
                   ELSE [buf |-> b1 \o Repeat(Space, Lmargin(sz)) \o Welcome,
                         status |-> "ok"]
             s3 == IF s2.status = "ok"
                   THEN [s2 EXCEPT !.buf = s2.buf \o RowSeparator(i, sz)]
                   ELSE s2
         IN RenderRows(s3, i + 1, sz, checks)

\* lines 215-238 of update(): everything printed before the first flush
RenderFrame(buf, pos, sz, checks) ==
    LET rows == RenderRows([buf |-> buf \o HIDE_CURSOR \o CURSOR_TO_START,
                            status |-> "ok"], 0, sz, checks)
    IN IF rows.status # "ok" THEN rows
       ELSE [rows EXCEPT !.buf = rows.buf \o MoveCursorCode(pos) \o SHOW_CURSOR]

\* mutant: the frame after Quit only homes the cursor
QuitFrame_NoClear(buf) == buf \o CURSOR_TO_START

\* lines 246-247: the frame printed after Quit
QuitFrame(buf) == buf \o CLEAR_SCREEN \o CURSOR_TO_START

(***************************************************************************)
(* Process exits.                                                          *)
(***************************************************************************)
NotExited == -1
SuccessExitCode == 0
FailureExitCode == 1
PanicExitCode == 101
AbortExitCode == 134

\* a panic unwinds out of main: message on the error stream, status 101.
\* Editor has no Drop, so nothing else runs.
Panic(what) ==
    /\ pc' = "exited"
    /\ stderr' = Append(stderr, what)
    /\ exit_code' = PanicExitCode

\* the allocator cannot serve the request: the process is aborted
Abort ==
    /\ pc' = "exited"
    /\ stderr' = Append(stderr, "abort")
    /\ exit_code' = AbortExitCode

\* mutant: the buffer is not cleared after the write
FlushOk_NoClear(buf) ==
    /\ ostream' = buf
    /\ framebuf' = buf

\* flush(): write_all, flush, clear
FlushOk(buf) ==
    /\ ostream' = buf
    /\ framebuf' = <<>>

\* flush() returning early with `?`: the stream has taken none, part or all
\* of the buffer, and the buffer is not cleared
FlushErr(buf) ==
    /\ \E n \in {0, Len(buf) \div 2, Len(buf)} : ostream' = SubSeq(buf, 1, n)
    /\ framebuf' = buf
    /\ err' = "write"

\* where update() is after handle_input returned Ok(false): the while
\* loop calls it again
\* mutant: a timed-out read ends the wait
AfterTimeout_EndsTick == "update"
AfterTimeout == "read1"

\* mutant: input that produced no event is waited over, like a timeout
AfterInput_WaitsForEvent(q) == IF q THEN "quit_flush" ELSE "read1"

\* where main() is after handle_input returned Ok(true): line 245
AfterInput(q) == IF q THEN "quit_flush" ELSE "update"

(***************************************************************************)
(* Initial state: main() is about to open /dev/tty.                        *)
(***************************************************************************)
Init ==
    /\ pc = "open"
    /\ overflow_checks \in BOOLEAN
    /\ tty \in InitialTermios
    /\ prev_term_settings = NoTermios
    /\ term_settings = NoTermios
    /\ size = [x |-> 0, y |-> 0]
    /\ curpos = [x |-> 0, y |-> 0]
    /\ prev_curpos = [x |-> 0, y |-> 0]
    /\ framebuf = <<>>
    /\ quit = FALSE
    /\ ostream = <<>>
    /\ err = "none"
    /\ stderr = <<>>
    /\ exit_code = NotExited
    /\ tcgetattr_calls = 0
    /\ restore_calls = 0
    /\ key = NoKey
    /\ event = "none"
    /\ consumed = 0
    /\ retries = 0

(***************************************************************************)
(* main(), lines 257-263: startup.                                         *)
(***************************************************************************)
\* File::open("/dev/tty").unwrap()
OpenTty ==
    /\ pc = "open"
    /\ \/ pc' = "new" /\ UNCHANGED <<stderr, exit_code>>
       \/ Panic("panic: open")
    /\ UNCHANGED <<prev_curpos, overflow_checks, tty, prev_term_settings, term_settings,
                   size, curpos, framebuf, quit, ostream, err,
                   tcgetattr_calls, restore_calls, key, event, consumed,
                   retries>>

\* Editor::new(..).unwrap(): tcgetattr, clone, raw_mode_params, then
\* get_window_size while the struct is built
EditorNew ==
    /\ pc = "new"
    /\ \/ \* tcgetattr fails
          /\ Panic("panic: tcgetattr")
          /\ UNCHANGED <<prev_term_settings, term_settings, size,
                         tcgetattr_calls>>
       \/ \* the TIOCGWINSZ ioctl fails
          /\ prev_term_settings' = tty
          /\ term_settings' = raw_mode_params(tty)
          /\ tcgetattr_calls' = tcgetattr_calls + 1
          /\ Panic("panic: ioctl")
          /\ UNCHANGED size
       \/ \* Ok(Editor {..}) with whatever the device reports
          \E cols \in 0..MaxCols, rows \in 0..MaxRows :
            /\ prev_term_settings' = tty
            /\ term_settings' = raw_mode_params(tty)
            /\ tcgetattr_calls' = tcgetattr_calls + 1
            /\ size' = [x |-> cols, y |-> rows]
            /\ pc' = "apply"
            /\ UNCHANGED <<stderr, exit_code>>
    /\ curpos' = [x |-> 0, y |-> 0]
    /\ framebuf' = <<>>
    /\ quit' = FALSE
    /\ UNCHANGED <<prev_curpos, overflow_checks, tty, ostream, err, restore_calls,
                   key, event, consumed, retries>>

\* e.apply_term_settings().unwrap()
ApplyTermSettings ==
    /\ pc = "apply"
    /\ \/ tty' = term_settings /\ pc' = "update"
          /\ UNCHANGED <<stderr, exit_code>>
       \/ Panic("panic: tcsetattr") /\ UNCHANGED tty
    /\ UNCHANGED <<prev_curpos, overflow_checks, prev_term_settings, term_settings, size,
                   curpos, framebuf, quit, ostream, err,
                   tcgetattr_calls, restore_calls, key, event, consumed,
                   retries>>

(***************************************************************************)
(* update(), lines 215-239: build the frame and flush it.                  *)
(***************************************************************************)
Update ==
    /\ pc = "update"
    /\ LET r == RenderFrame(framebuf, curpos, size, overflow_checks)
       IN \/ /\ r.status = "panic"
             /\ framebuf' = r.buf
             /\ Panic("panic: overflow")
             /\ UNCHANGED <<ostream, err>>
          \/ /\ r.status = "alloc"
             /\ framebuf' = r.buf
             /\ Abort
             /\ UNCHANGED <<ostream, err>>
          \/ /\ r.status = "ok"
             /\ FlushOk(r.buf)
             /\ pc' = "read1"
             /\ UNCHANGED <<err, stderr, exit_code>>
          \/ /\ r.status = "ok"
             /\ FlushErr(r.buf)
             /\ pc' = "err"
             /\ UNCHANGED <<stderr, exit_code>>
    /\ key' = NoKey
    /\ event' = "none"
    /\ consumed' = 0
    /\ retries' = 0
    /\ prev_curpos' = curpos
    /\ UNCHANGED <<overflow_checks, tty, prev_term_settings, term_settings,
                   size, curpos, quit, tcgetattr_calls, restore_calls>>

(***************************************************************************)
(* handle_input(), lines 163-212, one step per read_key call, and the      *)
(* `while !self.handle_input()?` loop of update() around it.               *)
(***************************************************************************)
\* a read_key(..)? that returned Err: handle_input and update return it
ReadFails ==
    /\ event' = "error"
    /\ err' = "read"
    /\ pc' = "err"
    /\ retries' = 0
    /\ UNCHANGED <<curpos, quit, consumed, stderr, exit_code>>

\* line 164: the first read of a call
ReadFirst ==
    /\ pc = "read1"
    /\ \E r \in ReadOutcomes :
         LET k == read_key(r)
         IN /\ key' = k
            /\ \/ k.kind = "Err" /\ ReadFails
               \/ \* Ok(false): update() calls handle_input again
                  /\ k.kind = "None"
                  /\ retries < MaxRetries
                  /\ retries' = retries + 1
                  /\ event' = "retry"
                  /\ consumed' = 0
                  /\ pc' = AfterTimeout
                  /\ UNCHANGED <<curpos, quit, err, stderr, exit_code>>
               \/ /\ k.kind = "Some"
                  /\ k.byte = ctrl_chord(LowerQ)
                  /\ quit' = TRUE
                  /\ event' = "Quit"
                  /\ consumed' = 1
                  /\ pc' = AfterInput(quit')
                  /\ UNCHANGED <<curpos, retries, err, stderr, exit_code>>
               \/ /\ k.kind = "Some"
                  /\ k.byte # ctrl_chord(LowerQ)
                  /\ k.byte = ESC
                  /\ event' = "pending"
                  /\ consumed' = 1
                  /\ pc' = "read2"
                  /\ retries' = 0
                  /\ UNCHANGED <<curpos, quit, err, stderr, exit_code>>
               \/ /\ k.kind = "Some"
                  /\ k.byte # ctrl_chord(LowerQ)
                  /\ k.byte # ESC
                  /\ event' = "none"
                  /\ consumed' = 1
                  /\ pc' = AfterInput(quit)
                  /\ retries' = 0
                  /\ UNCHANGED <<curpos, quit, err, stderr, exit_code>>
    /\ prev_curpos' = curpos
    /\ UNCHANGED <<overflow_checks, tty, prev_term_settings, term_settings,
                   size, framebuf, ostream, tcgetattr_calls,
                   restore_calls>>

\* line 179: the read after ESC
ReadSecond ==
    /\ pc = "read2"
    /\ \E r \in ReadOutcomes :
         LET k == read_key(r)
         IN /\ key' = k
            /\ \/ k.kind = "Err" /\ ReadFails
               \/ /\ k.kind = "Some"
                  /\ k.byte = LBracket
                  /\ event' = "pending"
                  /\ consumed' = consumed + 1
                  /\ pc' = "read3"
                  /\ UNCHANGED <<curpos, quit, retries, err, stderr,
                                 exit_code>>
               \/ \* None, or a byte other than '[': fall through to Ok(true)
                  /\ k.kind # "Err"
                  /\ ~(k.kind = "Some" /\ k.byte = LBracket)
                  /\ event' = "none"
                  /\ consumed' = consumed + (IF k.kind = "Some" THEN 1 ELSE 0)
                  /\ pc' = AfterInput(quit)
                  /\ UNCHANGED <<curpos, quit, retries, err, stderr,
                                 exit_code>>
    /\ UNCHANGED <<prev_curpos, overflow_checks, tty, prev_term_settings, term_settings,
                   size, framebuf, ostream, tcgetattr_calls,
                   restore_calls>>

\* lines 180-207: the read after ESC '[' and the match on it
ReadThird ==
    /\ pc = "read3"
    /\ \E r \in ReadOutcomes :
         LET k == read_key(r)
         IN /\ key' = k
            /\ \/ k.kind = "Err" /\ ReadFails
               \/ \* `self.size.y - 1` or `self.size.x - 1` overflows
                  /\ k.kind = "Some"
                  /\ overflow_checks /\ ArmOverflows(k.byte, size)
                  /\ event' = ArmEvent(k)
                  /\ consumed' = consumed + 1
                  /\ Panic("panic: overflow")
                  /\ UNCHANGED <<curpos, quit, retries, err>>
               \/ /\ k.kind # "Err"
                  /\ ~(k.kind = "Some" /\ overflow_checks
                         /\ ArmOverflows(k.byte, size))
                  /\ event' = ArmEvent(k)
                  /\ curpos' = ApplyArm(ArmEvent(k), curpos, size)
                  /\ curpos'.x < size.x + MaxOverrun
                  /\ curpos'.y < size.y + MaxOverrun
                  /\ consumed' = consumed + (IF k.kind = "Some" THEN 1 ELSE 0)
                  /\ pc' = AfterInput(quit)
                  /\ UNCHANGED <<quit, retries, err, stderr, exit_code>>
    /\ UNCHANGED <<prev_curpos, overflow_checks, tty, prev_term_settings, term_settings,
                   size, framebuf, ostream, tcgetattr_calls,
                   restore_calls>>

(***************************************************************************)
(* update(), lines 245-250: the frame after Quit.                          *)
(***************************************************************************)
QuitFlush ==
    /\ pc = "quit_flush"
    /\ \/ /\ FlushOk(QuitFrame(framebuf))
          /\ pc' = "restore"
          /\ UNCHANGED err
       \/ /\ FlushErr(QuitFrame(framebuf))
          /\ pc' = "err"
    /\ UNCHANGED <<prev_curpos, overflow_checks, tty, prev_term_settings, term_settings,
                   size, curpos, quit, stderr, exit_code, tcgetattr_calls,
                   restore_calls, key, event, consumed, retries>>

(***************************************************************************)
(* main(), lines 265-277: the arms of the match and the end of main.       *)
(***************************************************************************)
\* mutant: the Err arm reports without restoring
RestoreOnError_Skipped ==
    /\ pc = "err"
    /\ pc' = "report"
    /\ UNCHANGED <<prev_curpos, overflow_checks, tty, prev_term_settings,
                   term_settings, size, curpos, framebuf, quit, ostream, err,
                   stderr, exit_code, tcgetattr_calls, restore_calls, key,
                   event, consumed, retries>>

\* line 270: e.apply_prev_term_settings().unwrap() in the Err arm
RestoreOnError ==
    /\ pc = "err"
    /\ restore_calls' = restore_calls + 1
    /\ \/ tty' = prev_term_settings /\ pc' = "report"
          /\ UNCHANGED <<stderr, exit_code>>
       \/ Panic("panic: tcsetattr") /\ UNCHANGED tty
    /\ UNCHANGED <<prev_curpos, overflow_checks, prev_term_settings, term_settings, size,
                   curpos, framebuf, quit, ostream, err,
                   tcgetattr_calls, key, event, consumed, retries>>

\* line 271: eprintln!("{:?}", err)
ReportError ==
    /\ pc = "report"
    /\ stderr' = Append(stderr, err)
    /\ pc' = "exit"
    /\ UNCHANGED <<prev_curpos, overflow_checks, tty, prev_term_settings, term_settings,
                   size, curpos, framebuf, quit, ostream, err,
                   exit_code, tcgetattr_calls, restore_calls, key, event,
                   consumed, retries>>

\* line 272: std::process::exit(1)
ExitFailure ==
    /\ pc = "exit"
    /\ pc' = "exited"
    /\ exit_code' = FailureExitCode
    /\ UNCHANGED <<prev_curpos, overflow_checks, tty, prev_term_settings, term_settings,
                   size, curpos, framebuf, quit, ostream, err,
                   stderr, tcgetattr_calls, restore_calls, key, event,
                   consumed, retries>>

\* mutant: the raw set is applied where the saved set should be
RestoreAndReturn_AppliesRaw ==
    /\ pc = "restore"
    /\ restore_calls' = restore_calls + 1
    /\ \/ /\ tty' = term_settings
          /\ pc' = "exited"
          /\ exit_code' = SuccessExitCode
          /\ UNCHANGED stderr
       \/ Panic("panic: tcsetattr") /\ UNCHANGED tty
    /\ UNCHANGED <<prev_curpos, overflow_checks, prev_term_settings, term_settings, size,
                   curpos, framebuf, quit, ostream, err,
                   tcgetattr_calls, key, event, consumed, retries>>

\* line 277, after `break`: restore, then main returns
RestoreAndReturn ==
    /\ pc = "restore"
    /\ restore_calls' = restore_calls + 1
    /\ \/ /\ tty' = prev_term_settings
          /\ pc' = "exited"
          /\ exit_code' = SuccessExitCode
          /\ UNCHANGED stderr
       \/ Panic("panic: tcsetattr") /\ UNCHANGED tty
    /\ UNCHANGED <<prev_curpos, overflow_checks, prev_term_settings, term_settings, size,
                   curpos, framebuf, quit, ostream, err,
                   tcgetattr_calls, key, event, consumed, retries>>

Next ==
    \/ OpenTty
    \/ EditorNew
    \/ ApplyTermSettings
    \/ Update
    \/ ReadFirst
    \/ ReadSecond
    \/ ReadThird
    \/ QuitFlush
    \/ RestoreOnError
    \/ ReportError
    \/ ExitFailure
    \/ RestoreAndReturn

Spec == Init /\ [][Next]_vars

(***************************************************************************)
(* Properties.                                                             *)
(***************************************************************************)
CtrlQ == ctrl_chord(LowerQ)
InTick == pc \in {"read1", "read2", "read3", "quit_flush"}
InHandleInput == pc \in {"read1", "read2", "read3"}
Reported(what) == \E i \in DOMAIN stderr : stderr[i] = what
TickError == err # "none"
InBounds(pos, sz) == 0 <= pos.x /\ pos.x < sz.x /\ 0 <= pos.y /\ pos.y < sz.y
PositiveSize == size.x >= 1 /\ size.y >= 1

\* C1: once the attributes have been captured, every way the process ends
\* leaves the terminal holding the captured attributes, which were captured
\* once and re-applied at most once.  (The claim also asks for exactly one
\* re-application; this is the part of it that does not depend on how a
\* failure before raw mode is counted.  It is stated for screens of at least
\* one row and one column.)
C1_RestoredOnEveryExit ==
    pc = "exited" /\ tcgetattr_calls >= 1 /\ PositiveSize =>
        /\ tcgetattr_calls = 1
        /\ restore_calls <= 1
        /\ tty = prev_term_settings

\* C2: with rows >= 1 and cols >= 1 the cursor is inside the screen in every
\* state, and an arrow key at the matching edge leaves the cursor where it was.
C2_CursorClamped ==
    PositiveSize =>
        /\ InBounds(curpos, size)
        /\ InBounds(prev_curpos, size)
        /\ event = "MoveLeft" /\ prev_curpos.x = 0 => curpos = prev_curpos
        /\ event = "MoveUp" /\ prev_curpos.y = 0 => curpos = prev_curpos
        /\ event = "MoveRight" /\ prev_curpos.x = size.x - 1
               => curpos = prev_curpos
        /\ event = "MoveDown" /\ prev_curpos.y = size.y - 1
               => curpos = prev_curpos

\* C2 witness: a right arrow arrived with the cursor in the last column of a
\* screen of at least two rows, and the cursor stayed there.
C2_Witness ==
    /\ size.y >= 2
    /\ event = "MoveRight"
    /\ prev_curpos.x = size.x - 1
    /\ prev_curpos.y = size.y - 1
    /\ curpos = prev_curpos
    /\ pc = "update"

\* C3: whenever the byte just read is 0x11, in whichever position of an
\* escape sequence it was read, Quit is emitted, the quit flag is set and no
\* escape sequence is pending.
C3_CtrlQAlwaysQuits ==
    PositiveSize /\ key.kind = "Some" /\ key.byte = CtrlQ =>
        event = "Quit" /\ quit /\ pc \notin {"read2", "read3"}

\* C4: a read that times out, at any position of handle_input, leaves the
\* program waiting at the same position.
C4_TimeoutKeepsDecoderState ==
    [][PositiveSize /\ InHandleInput /\ key'.kind = "None" =>
           pc' = pc /\ UNCHANGED <<curpos, quit>>]_vars

\* C5: when update() has returned an error, the saved attributes are
\* re-applied before the error is written to the error stream and before
\* the process ends: the error is on the error stream only with the
\* terminal restored by exactly one call, exit(1) is reached only after the
\* report, and the process ends on that path only after the one restore
\* call (which leaves the terminal restored unless tcsetattr itself failed).
C5_RestoreBeforeReport ==
    /\ TickError /\ pc \in {"report", "exit"} =>
           tty = prev_term_settings /\ restore_calls = 1
    /\ TickError /\ pc = "report" => ~Reported(err)
    /\ Reported("read") \/ Reported("write") =>
           /\ TickError /\ Reported(err)
           /\ tty = prev_term_settings
           /\ restore_calls = 1
           /\ pc \in {"exit", "exited"}
    /\ TickError /\ pc = "exited" =>
           /\ restore_calls = 1
           /\ \/ /\ exit_code = FailureExitCode
                 /\ Reported(err)
                 /\ tty = prev_term_settings
              \/ /\ exit_code = PanicExitCode
                 /\ Reported("panic: tcsetattr")
                 /\ ~Reported(err)

\* C5 witness: the read of the third byte of an escape sequence failed and
\* the process has ended with status 1.
C5_Witness ==
    /\ pc = "exited"
    /\ err = "read"
    /\ consumed = 2
    /\ exit_code = FailureExitCode
    /\ tty = prev_term_settings

\* The decoder table of the specification, and the decoder state that each
\* position of handle_input stands for.
DecoderState(p) ==
    IF p = "read2" THEN "SawEscape"
    ELSE IF p = "read3" THEN "SawBracket"
    ELSE "Idle"
TableNext(st, b) ==
    IF st = "Idle" /\ b = ESC THEN "SawEscape"
    ELSE IF st = "SawEscape" /\ b = LBracket THEN "SawBracket"
    ELSE "Idle"
TableEvent(st, b) ==
    IF st = "Idle" /\ b = CtrlQ THEN "Quit"
    ELSE IF st = "SawBracket" /\ b = KeyA THEN "MoveUp"
    ELSE IF st = "SawBracket" /\ b = KeyB THEN "MoveDown"
    ELSE IF st = "SawBracket" /\ b = KeyC THEN "MoveRight"
    ELSE IF st = "SawBracket" /\ b = KeyD THEN "MoveLeft"
    ELSE "none"
TableLength(st) ==
    IF st = "Idle" THEN 1 ELSE IF st = "SawEscape" THEN 2 ELSE 3
EmittedEvent(e) == IF e = "pending" THEN "none" ELSE e

\* C6: every byte that handle_input consumes, other than a 0x11 inside an
\* escape sequence, is handled as the decoder table says: the event of the
\* step is the table's event, the position after the step stands for the
\* table's next state, and the call has consumed 1, 2 or 3 bytes according
\* to the state the byte was read in.
C6_DecoderFollowsTable ==
    [][InHandleInput /\ key'.kind = "Some"
            /\ ~(key'.byte = CtrlQ /\ pc # "read1") =>
           /\ EmittedEvent(event') = TableEvent(DecoderState(pc), key'.byte)
           /\ DecoderState(pc') = TableNext(DecoderState(pc), key'.byte)
           /\ consumed' = TableLength(DecoderState(pc))
           /\ event' = "MoveUp" => curpos' = MoveUp(curpos)
           /\ event' = "MoveLeft" => curpos' = MoveLeft(curpos)
           /\ event' = "MoveDown" /\ PositiveSize =>
                  curpos' = [curpos EXCEPT !.y =
                                IF @ + 1 < size.y THEN @ + 1 ELSE @]
           /\ event' = "MoveRight" /\ PositiveSize =>
                  curpos' = [curpos EXCEPT !.x =
                                IF @ + 1 < size.x THEN @ + 1 ELSE @]
           /\ event' \in {"none", "pending", "Quit"} => curpos' = curpos]_vars

\* C6 witness: ESC '[' 'A' has been consumed with the cursor below the top
\* row: one MoveUp, three bytes, the cursor one row up.
C6_Witness ==
    /\ pc = "update"
    /\ key = [kind |-> "Some", byte |-> KeyA]
    /\ event = "MoveUp"
    /\ consumed = 3
    /\ prev_curpos.y >= 1
    /\ curpos.y = prev_curpos.y - 1

\* C7: the process ends with status 0 after Quit and with status 1 after any
\* I/O or terminal failure (tcgetattr, the window-size ioctl, tcsetattr, a
\* read or a write), and in each of these cases the terminal holds the
\* attributes it had at startup.
IOFailure ==
    \/ TickError
    \/ Reported("panic: tcgetattr")
    \/ Reported("panic: ioctl")
    \/ Reported("panic: tcsetattr")
C7_ExitCodes ==
    pc = "exited" =>
        /\ IOFailure => exit_code = FailureExitCode
        /\ quit /\ ~IOFailure => exit_code = SuccessExitCode
        /\ (quit \/ IOFailure) /\ tcgetattr_calls >= 1 =>
               tty = prev_term_settings

\* C8: a tick never runs with a screen of zero rows or zero columns.
C8_TickHasPositiveSize ==
    InTick => size.x >= 1 /\ size.y >= 1

\* C9: while update() waits for the first byte of a tick, a timed-out read
\* changes nothing but the retry count (cursor, quit flag, frame buffer and
\* the bytes written are the same, the tick is still waiting), and a 0x11
\* read there, after any number of timeouts, sets the quit flag, emits
\* Quit and ends the wait.
C9_TimeoutsThenQuit ==
    [][pc = "read1" =>
           /\ key'.kind = "None" =>
                  /\ pc' = "read1"
                  /\ event' = "retry"
                  /\ retries' = retries + 1
                  /\ UNCHANGED <<curpos, quit, framebuf, ostream, stderr,
                                 tty, size>>
           /\ key' = [kind |-> "Some", byte |-> CtrlQ] =>
                  /\ ~quit /\ quit'
                  /\ event' = "Quit"
                  /\ consumed' = 1
                  /\ pc' = "quit_flush"
                  /\ UNCHANGED <<curpos, framebuf, ostream, retries>>]_vars

\* C9 witness: two timeouts in a row, then 0x11, on a screen of positive
\* size: Quit is the event and the quit frame is about to be written.
C9_Witness ==
    /\ PositiveSize
    /\ pc = "quit_flush"
    /\ retries >= 2
    /\ key = [kind |-> "Some", byte |-> CtrlQ]
    /\ event = "Quit"
    /\ quit

\* Reading a frame back: where a byte string occurs, and the value of a
\* string of decimal digits.
OccursAt(f, i, w) ==
    /\ i >= 1
    /\ i + Len(w) - 1 <= Len(f)
    /\ SubSeq(f, i, i + Len(w) - 1) = w
Occurrences(f, w) == {i \in 1..Len(f) : OccursAt(f, i, w)}
IsDigits(d) == Len(d) >= 1 /\ \A i \in 1..Len(d) : d[i] \in 48..57
RECURSIVE DecimalValue(_)
DecimalValue(d) ==
    IF Len(d) = 0 THEN 0
    ELSE 10 * DecimalValue(SubSeq(d, 1, Len(d) - 1)) + (d[Len(d)] - 48)
SetMax(S) == CHOOSE m \in S : \A n \in S : n <= m

\* f is a frame for `rows` rows and cursor `pos`: hide-cursor and
\* cursor-to-origin first; exactly `rows` '~', the first right after them,
\* each followed at once by clear-to-end-of-line; exactly rows - 1 CR/LF,
\* each followed at once by the next '~' (so none after the last row);
\* then ESC '[' row ';' col 'H' with row = pos.y + 1 and col = pos.x + 1
\* in decimal, and show-cursor as the last bytes.
FrameShape(f, rows, pos) ==
    LET markers == Occurrences(f, <<Tilde>>)
        seps == Occurrences(f, CRLF)
        escs == Occurrences(f, <<ESC>>)
        showAt == Len(f) - Len(SHOW_CURSOR) + 1
        codeAt == SetMax({i \in escs : i < showAt})
        semis == {i \in codeAt..showAt : f[i] = Semicolon}
        semiAt == SetMax(semis)
        rowDigits == SubSeq(f, codeAt + 2, semiAt - 1)
        colDigits == SubSeq(f, semiAt + 1, showAt - 2)
    IN /\ OccursAt(f, 1, HIDE_CURSOR \o CURSOR_TO_START)
       /\ Cardinality(markers) = rows
       /\ Len(HIDE_CURSOR \o CURSOR_TO_START) + 1 \in markers
       /\ \A i \in markers : OccursAt(f, i + 1, CLEAR_LINE)
       /\ Cardinality(seps) = rows - 1
       /\ \A i \in seps : i + Len(CRLF) \in markers
       /\ OccursAt(f, showAt, SHOW_CURSOR)
       /\ codeAt > SetMax(markers) + Len(CLEAR_LINE)
       /\ (rows - 1 # rows \div 3 =>
              codeAt = SetMax(markers) + Len(CLEAR_LINE) + 1)
       /\ f[codeAt + 1] = LBracket
       /\ Cardinality(semis) = 1
       /\ f[showAt - 1] = UpperH
       /\ IsDigits(rowDigits) /\ IsDigits(colDigits)
       /\ DecimalValue(rowDigits) = pos.y + 1
       /\ DecimalValue(colDigits) = pos.x + 1

\* C10: with rows >= 1, the frame that a tick has written has the shape
\* above for the screen's rows and the cursor, and the position it names is
\* a row in 1..rows and a column in 1..cols.
C10_FrameLayout ==
    InHandleInput /\ PositiveSize =>
        /\ FrameShape(ostream, size.y, curpos)
        /\ curpos.y + 1 \in 1..size.y
        /\ curpos.x + 1 \in 1..size.x

\* C10 witness: a frame has been written for a screen of three rows with
\* the cursor in column 10 or beyond (a two-digit column) of the last row.
C10_Witness ==
    /\ pc = "read1"
    /\ size.y = 3
    /\ curpos.y = 2
    /\ curpos.x >= 9
    /\ Len(ostream) > 0

\* Reading the banner back from a frame: where it starts, the row marker
\* before it, and the bytes between that row's clear-line code and it.
BannerAt(f) == SetMax(Occurrences(f, Welcome))
BannerMarker(f) == SetMax({i \in Occurrences(f, <<Tilde>>) : i < BannerAt(f)})
BannerPadding(f) ==
    SubSeq(f, BannerMarker(f) + 1 + Len(CLEAR_LINE), BannerAt(f) - 1)
AllSpaces(d) == \A i \in 1..Len(d) : d[i] = Space

\* C11 as stated: in a written frame the banner is preceded by exactly
\* (cols - len(banner)) / 2 spaces.
C11_MarginAsStated ==
    InHandleInput /\ PositiveSize =>
        /\ Cardinality(Occurrences(ostream, Welcome)) = 1
        /\ AllSpaces(BannerPadding(ostream))
        /\ Len(BannerPadding(ostream)) = (size.x - Len(Welcome)) \div 2

\* C11 amended: in every frame that is written the banner follows its
\* row's '~' and clear-line code after exactly
\* (cols - len(banner)) / 2 - 1 spaces.
C11_MarginWithCorrection ==
    InHandleInput /\ PositiveSize =>
        /\ Cardinality(Occurrences(ostream, Welcome)) = 1
        /\ OccursAt(ostream, BannerMarker(ostream) + 1, CLEAR_LINE)
        /\ AllSpaces(BannerPadding(ostream))
        /\ Len(BannerPadding(ostream)) = (size.x - Len(Welcome)) \div 2 - 1

\* C11 witness: a frame for 23 columns or more has been written, with at
\* least one space before the banner.
C11_Witness ==
    /\ InHandleInput
    /\ size.y >= 1
    /\ size.x >= 23
    /\ Len(BannerPadding(ostream)) >= 1

\* C12: the device's attributes are untouched until they are captured; the
\* capture stores them unchanged (the raw set is a different value, derived
\* from a copy); the stored value never changes afterwards; and every
\* re-application that succeeds hands exactly that value back to the device.
C12_SavedAttributesRoundTrip ==
    [][/\ tcgetattr_calls = 0 => tty' = tty
       /\ tcgetattr_calls = 0 /\ tcgetattr_calls' = 1 =>
              /\ prev_term_settings' = tty
              /\ term_settings' # prev_term_settings'
              /\ "ICANON" \in prev_term_settings'.local_flags
              /\ "ICANON" \notin term_settings'.local_flags
       /\ tcgetattr_calls = 1 =>
              /\ prev_term_settings' = prev_term_settings
              /\ term_settings' = term_settings
              /\ tty' \in {prev_term_settings, term_settings}
       /\ restore_calls' = restore_calls + 1
              /\ (pc' = "report" \/ exit_code' = SuccessExitCode) =>
              tty' = prev_term_settings]_vars

\* C12 witness: the session was entered and left by Quit, and the device
\* holds the captured attributes again, which are not the raw ones.
C12_Witness ==
    /\ pc = "exited"
    /\ exit_code = SuccessExitCode
    /\ restore_calls = 1
    /\ tty = prev_term_settings
    /\ tty \in InitialTermios
    /\ tty # term_settings

\* the logical events of the input decoder
LogicalEvents == {"Quit", "MoveUp", "MoveDown", "MoveRight", "MoveLeft"}

\* the wait of a tick is over: the next frame, or the frame after Quit, is next
TickEnds == InHandleInput /\ pc' \in {"update", "quit_flush"}

TerminalRank(p) ==
    CASE p = "quit_flush" -> 1
      [] p = "restore" -> 2
      [] p = "err" -> 2
      [] p = "report" -> 3
      [] p = "exit" -> 4
      [] p = "exited" -> 5
      [] OTHER -> 0

\* C14: from the state in which Quit has been applied on, every step moves
\* forward through flush, restore and exit; no byte is read, no regular frame
\* is rendered and the cursor is not changed; the only write to the output
\* stream is the one of the final frame, which is exactly erase-display
\* followed by cursor-to-origin and leaves the buffer empty; the restore
\* that follows hands the saved attributes back and the process ends.
C14_QuitIsTerminal ==
    [][quit =>
         /\ TerminalRank(pc) >= 1
         /\ TerminalRank(pc') > TerminalRank(pc)
         /\ UNCHANGED <<quit, curpos, key, event, consumed, size>>
         /\ ostream' # ostream => pc = "quit_flush"
         /\ pc = "quit_flush" /\ pc' = "restore" =>
                /\ ostream' = CLEAR_SCREEN \o CURSOR_TO_START
                /\ framebuf' = <<>>
         /\ pc = "restore" =>
                /\ pc' = "exited"
                /\ restore_calls = 0 /\ restore_calls' = 1
                /\ exit_code' = SuccessExitCode => tty' = prev_term_settings]_vars

\* C14 witness: the cursor was moved, Ctrl-Q was read, and the process has
\* ended with the final frame on the stream and the terminal restored.
C14_Witness ==
    /\ pc = "exited"
    /\ quit
    /\ exit_code = SuccessExitCode
    /\ curpos # [x |-> 0, y |-> 0]
    /\ ostream = CLEAR_SCREEN \o CURSOR_TO_START
    /\ tty = prev_term_settings

\* |a - b| <= 1
Adjacent(a, b) == a - b \in {-1, 0, 1}

\* C15: a handle_input step whose outcome is not Quit leaves the screen size,
\* the quit flag, both attribute sets, the terminal mode and the output
\* untouched; MoveUp and MoveDown keep x and change y by at most 1 in their
\* direction, MoveRight and MoveLeft keep y and change x by at most 1 in
\* theirs, and every other outcome keeps the cursor.
C15_NonQuitChangesOnlyCursor ==
    [][InHandleInput /\ event' # "Quit" =>
         /\ UNCHANGED <<size, quit, prev_term_settings, term_settings, tty,
                        ostream, framebuf, overflow_checks>>
         /\ event' \in {"MoveUp", "MoveDown"} =>
                /\ curpos'.x = curpos.x
                /\ Adjacent(curpos'.y, curpos.y)
                /\ event' = "MoveUp" => curpos'.y <= curpos.y
                /\ event' = "MoveDown" => curpos'.y >= curpos.y
         /\ event' \in {"MoveRight", "MoveLeft"} =>
                /\ curpos'.y = curpos.y
                /\ Adjacent(curpos'.x, curpos.x)
                /\ event' = "MoveLeft" => curpos'.x <= curpos.x
                /\ event' = "MoveRight" => curpos'.x >= curpos.x
         /\ event' \notin {"MoveUp", "MoveDown", "MoveRight", "MoveLeft"} =>
                curpos' = curpos]_vars

\* C15 witness: a MoveUp has just taken the cursor one row up from a cell
\* that is not in the first column, on a screen of positive size.
C15_Witness ==
    /\ pc = "update"
    /\ PositiveSize
    /\ event = "MoveUp"
    /\ curpos.x >= 1
    /\ curpos.x = prev_curpos.x
    /\ curpos.y + 1 = prev_curpos.y
    /\ ~quit

\* f is one regular frame from its first byte to its last: it opens with
\* hide-cursor and cursor-to-origin, closes with show-cursor, and holds
\* neither code a second time
RegularFrame(f) ==
    /\ OccursAt(f, 1, HIDE_CURSOR \o CURSOR_TO_START)
    /\ OccursAt(f, Len(f) - Len(SHOW_CURSOR) + 1, SHOW_CURSOR)
    /\ Cardinality(Occurrences(f, HIDE_CURSOR)) = 1
    /\ Cardinality(Occurrences(f, SHOW_CURSOR)) = 1

\* d is the first n bytes of f, for some n
IsPrefix(d, f) == Len(d) <= Len(f) /\ d = SubSeq(f, 1, Len(d))

\* C16: the buffer is empty whenever a tick starts, the loop waits for
\* input, or the frame after Quit is due; a write that succeeds puts one
\* whole frame on the stream, regular or final, and leaves the buffer empty;
\* nothing is written outside the two flushes, and after a write that failed
\* nothing is written again, so no frame continues in a second write.
C16_WholeFramesOnly ==
    [][/\ pc' \in {"update", "read1", "read2", "read3", "quit_flush"} =>
              framebuf' = <<>>
       /\ pc = "update" /\ pc' = "read1" =>
              RegularFrame(ostream') /\ framebuf' = <<>>
       /\ pc = "quit_flush" /\ pc' = "restore" =>
              ostream' = CLEAR_SCREEN \o CURSOR_TO_START /\ framebuf' = <<>>
       /\ pc \notin {"update", "quit_flush"} => ostream' = ostream
       /\ err = "none" /\ err' = "write" =>
              IsPrefix(ostream', framebuf') /\ pc' = "err"
       /\ err # "none" => ostream' = ostream /\ framebuf' = framebuf]_vars

\* C16 witness: a second regular frame has been written after a move, it is
\* one whole frame different from the first, and the buffer is empty.
C16_Witness ==
    /\ pc = "read1"
    /\ event = "none" /\ consumed = 0
    /\ curpos # [x |-> 0, y |-> 0]
    /\ RegularFrame(ostream)
    /\ framebuf = <<>>

\* main()'s loop has been entered and left: one of the arms after update()
\* is running or has run, or the process died inside a tick
LoopEnded ==
    \/ pc \in {"restore", "err", "report", "exit"}
    \/ /\ pc = "exited"
       /\ \/ restore_calls > 0
          \/ Reported("panic: overflow")
          \/ Reported("abort")

\* C17 as stated: on a screen of positive size the loop is left only with
\* the quit flag set or with an error propagated from the tick.
C17_LoopEndsOnQuitOrError ==
    PositiveSize /\ LoopEnded => quit \/ TickError

\* 0-indexed row of the banner in frame f: the rows closed by a line
\* separator before it
BannerRowOf(f) ==
    Cardinality({i \in Occurrences(f, CRLF) : i < BannerAt(f)})

\* C18: every regular frame that has been written holds the banner text
\* exactly once, after the marker of row rows / 3 and before any later
\* separator's row; and the frame rendered for 24 rows of 80 columns has it
\* once, on row 8.
C18_BannerRow ==
    /\ InHandleInput /\ PositiveSize =>
          /\ Cardinality(Occurrences(ostream, Welcome)) = 1
          /\ BannerRowOf(ostream) = size.y \div 3
          /\ Cardinality({i \in Occurrences(ostream, <<Tilde>>) :
                            i < BannerAt(ostream)}) = size.y \div 3 + 1
    /\ pc = "open" =>
          LET r == RenderFrame(<<>>, [x |-> 0, y |-> 0],
                               [x |-> 80, y |-> 24], overflow_checks)
          IN /\ r.status = "ok"
             /\ Cardinality(Occurrences(r.buf, Welcome)) = 1
             /\ BannerRowOf(r.buf) = 8

\* C18 witness: a frame of three rows has been written and its banner is on
\* the second row, not the first.
C18_Witness ==
    /\ InHandleInput
    /\ size.y = 3
    /\ Cardinality(Occurrences(ostream, Welcome)) = 1
    /\ BannerRowOf(ostream) = 1

\* C19: read_key maps a read of one byte to Some(byte), a read that ended
\* with no data to None and every other failure to an error, and to nothing
\* else; in handle_input an error outcome leaves through the Err arm with
\* the cursor, the quit flag and the output as they were before the read,
\* and on a screen of positive size no other outcome ends the process or
\* raises an error.
C19_ReadOutcomes ==
    [][InHandleInput =>
         /\ \A r \in ReadOutcomes :
                /\ r.kind = "Ok" => read_key(r) = [kind |-> "Some", byte |-> r.byte]
                /\ r.kind = "UnexpectedEof" => read_key(r).kind = "None"
                /\ r.kind \notin {"Ok", "UnexpectedEof"} => read_key(r).kind = "Err"
         /\ key'.kind \in {"Some", "None", "Err"}
         /\ key'.kind = "Err" =>
                /\ pc' = "err" /\ err' = "read"
                /\ UNCHANGED <<curpos, quit, ostream, framebuf, tty>>
         /\ key'.kind # "Err" /\ PositiveSize =>
                /\ err' = "none"
                /\ exit_code' = NotExited
                /\ pc' \in {"read1", "read2", "read3", "update", "quit_flush"}]_vars

\* C19 witness: after a move, the third read of an ESC '[' sequence failed;
\* the error is on its way to main with the moved cursor and no quit.
C19_Witness ==
    /\ pc = "err"
    /\ err = "read"
    /\ key.kind = "Err"
    /\ consumed = 2
    /\ curpos # [x |-> 0, y |-> 0]
    /\ ~quit

\* C20 as stated: on a screen with rows >= 1 and cols >= 1 the rendering of
\* a frame that is about to start completes: the margin computation does
\* not overflow and the frame is built without a panic or an abort.
C20_RenderCompletes ==
    PositiveSize /\ pc = "update" =>
        /\ ~BannerOverflows(size)
        /\ RenderFrame(framebuf, curpos, size, overflow_checks).status = "ok"

====
